---- MODULE Spec2Model ----
(***************************************************************************)
(* LiveNote session collaboration engine: the participant store            *)
(* (note_users), the note row (notes) and the operations of                *)
(* src/lib/note-service.ts together with the routes and hooks that call    *)
(* them.  One note is modelled; time is the wall clock in milliseconds.    *)
(***************************************************************************)
EXTENDS Integers, FiniteSets, Sequences, TLC

(* ----- bounds of the model ----- *)
\* number of participant ids (uuids) that can ever be issued
MaxUsers == 2
\* number of times the wall clock advances
MaxTicks == 2
\* number of clock advances of the request / deny / request scenario
MaxTraceTicks == 3
\* number of local edits of one agent
MaxEdits == 2
\* number of payloads a channel holds for one agent before it is handled
MaxPending == 2
\* number of service calls that can be in flight at the same time
MaxCalls == 2
\* number of participant records the table holds when overlapping joins insert
MaxRows == 3

(* ----- program constants ----- *)
COOLDOWN_SECONDS == 30
EXPIRY_HOURS == 24
MsPerSecond == 1000
MAX_RECONNECT_ATTEMPTS == 3
MAX_FAILURES == 5
LOCK_DURATION_MS == 10 * 60 * 1000
\* SQL NULL / JS null (a nullable timestamp or a nullable holder id)
NULL == -1

CooldownMs == COOLDOWN_SECONDS * MsPerSecond
ExpiryMs == EXPIRY_HOURS * 60 * 60 * 1000

Users == 1..MaxUsers
UserRole == {"host", "guest"}
PermissionStatus == {"none", "requested", "granted", "denied"}
\* the passwords a client can type: the note's two passwords and a wrong one
Passwords == {"hostpw", "guestpw", "wrongpw"}
\* the clock advances by 1 ms, by just less than the cooldown, or by the expiry
Deltas == {1, CooldownMs - 1, ExpiryMs}

VARIABLES
  notes,        \* table notes: the rows of the modelled note (empty or one row)
  note_users,   \* table note_users: the rows of the modelled note (username
                \* and joined_at are not read by any operation and are left
                \* out)
  issued,       \* participant ids generated so far (uuids are never reused)
  userRole,     \* client side: the role each agent holds in sessionStorage
  lockLocal,    \* client side: useNoteLock's state and refs per agent
  lockInbox,    \* client side: the postgres_changes payloads of the lock
                \* channel that were sent to each agent and not yet handled
  hook,         \* client side: useRealtimeNote's state and refs per agent
  inbox,        \* client side: the postgres_changes payloads of the content
                \* channel that were sent to each agent and not yet handled
  now,          \* wall clock, ms
  ticks,        \* number of clock advances so far
  calls,        \* the service calls in flight between their read of the
                \* store and their write
  rateLimitMap, \* the DELETE route's in-memory entry for the note code
  last          \* the last operation, its arguments and its outcome

vars == <<notes, note_users, issued, userRole, lockLocal, lockInbox, hook, inbox,
          now, ticks, calls, rateLimitMap, last>>

(* ----- the record of the last call ----- *)
Call(op, caller, target, flag, result, remaining) ==
  [op |-> op, caller |-> caller, target |-> target, flag |-> flag,
   result |-> result, remaining |-> remaining]

NoCall == Call("init", NULL, NULL, FALSE, "ok", 0)

(* ----- table helpers ----- *)
\* .eq('note_id', noteId).eq('user_id', userId)
RowsOf(userId) == {r \in note_users : r.user_id = userId}

\* .single(): the one row of a result, an error unless there is exactly one
\* a service call in flight: the function, its caller, its arguments and the
\* id of the row its read returned (NULL: none)
Slots == 1..MaxCalls
NoPending == [op |-> "none", caller |-> NULL, target |-> NULL, role |-> "none",
              approve |-> FALSE, existing |-> NULL]

\* gen_random_uuid(): an id that no row has and no call in flight holds
RowIds == {r.id : r \in note_users} \cup {calls[k].existing : k \in Slots}
FreshRowId ==
  CHOOSE i \in 1..(Cardinality(RowIds) + 1) :
    /\ i \notin RowIds
    /\ \A j \in 1..(Cardinality(RowIds) + 1) : j \notin RowIds => i <= j

\* rateLimitMap.get(noteCode) is undefined.  wrong and fifthAt are history:
\* the number of DELETE requests with a wrong password that were answered
\* outside a lock since the last lock began, and the time of the request that
\* began the last lock (NULL: none)
NoEntry == [failCount |-> 0, lockedUntil |-> 0, wrong |-> 0, fifthAt |-> NULL]

IsSingle(rows) == Cardinality(rows) = 1
Single(rows) == CHOOSE r \in rows : TRUE

\* uuidv4() / crypto.randomUUID(): an id that was never issued before
FreshUserId == CHOOSE u \in Users : u \notin issued /\ \A v \in Users \ issued : u <= v

\* column defaults of note_users
DefaultPermissionStatus == "none"

(* ----- documents (TiptapContent) ----- *)
\* A document is null or a list of block nodes.  A block node has a type and
\* one text child; the text child is a JSON object whose keys come in an
\* order, which JSON.stringify shows.
TextNode(type, keys, text) == [type |-> type, keys |-> keys, text |-> text]

\* the key order in which a text node is built: { type: 'text', text: line }
EditorKeys == <<"type", "text">>

\* the key order of a JSONB value: shorter keys first, then bytewise
JsonbKeyOrder == <<"text", "type">>

NullContent == [isNull |-> TRUE, nodes |-> <<>>]
Doc(nodes) == [isNull |-> FALSE, nodes |-> nodes]

\* textToTiptapJson(''): { type: 'doc', content: [] }
EmptyDoc == Doc(<<>>)

\* the documents the editor produces in the model
DocA == Doc(<<TextNode("paragraph", EditorKeys, <<"a">>)>>)
DocB == Doc(<<TextNode("heading", EditorKeys, <<"b">>),
              TextNode("paragraph", EditorKeys, <<"c">>)>>)
EditDocs == {DocA, DocB}

\* a value stored in and read back from the column content_json JSONB: the
\* same structure with the keys of every object in JSONB order
Jsonb(json) ==
  [json EXCEPT !.nodes =
     [i \in DOMAIN json.nodes |->
        [json.nodes[i] EXCEPT !.keys =
           SelectSeq(JsonbKeyOrder,
                     LAMBDA k : \E j \in DOMAIN json.nodes[i].keys :
                                  json.nodes[i].keys[j] = k)]]]

\* isContentJsonEqual: identity, or equality of the JSON.stringify texts
isContentJsonEqual(a, b) == a = b

RECURSIVE JoinLines(_)
\* lines.join('\n'), a text being the list of its characters
JoinLines(lines) ==
  IF lines = <<>> THEN <<>>
  ELSE IF Len(lines) = 1 THEN lines[1]
  ELSE lines[1] \o <<"\n">> \o JoinLines(Tail(lines))

\* the plain-text backup: the text of each paragraph, '' for any other node
tiptapJsonToText(json) ==
  IF json.isNull THEN <<>>
  ELSE JoinLines([i \in DOMAIN json.nodes |->
                    IF json.nodes[i].type = "paragraph"
                    THEN json.nodes[i].text ELSE <<>>])

\* the row createNote inserts: content '', content_json left null
NewNote == [is_locked |-> FALSE, locked_by |-> NULL, last_modified |-> now,
            content_json |-> NullContent, content |-> <<>>]

(* ----- the state of useRealtimeNote ----- *)
\* contentJson (lastContentJsonRef follows it), isSaving, isLocalChangeRef,
\* pendingSaveRef, the debounce timer, the updateNoteContentJson call in flight
\* (request: none, sent, stored; its content and its last_modified stamp);
\* isConnected, reconnectAttemptsRef, the polling timer (polling) and the
\* fetchNoteContent call in flight (fetching, with the document it read);
\* guestCanEdit is the page's copy of the agent's edit right (canEdit of
\* useEditPermission);
\* fromEdit, unsaved, edits and failures are history: whether contentJson is
\* a local edit, whether the latest local edit has not yet been passed to
\* updateNoteContentJson, the number of local edits so far, and the number of
\* failures the channel reported since the last SUBSCRIBED (counted up to
\* MAX_RECONNECT_ATTEMPTS + 1)
HookState(mounted, contentJson) ==
  [mounted |-> mounted, contentJson |-> contentJson,
   isSaving |-> FALSE, isLocalChange |-> FALSE, pendingSave |-> FALSE,
   timer |-> FALSE, request |-> "none", sending |-> NullContent, stamp |-> 0,
   isConnected |-> FALSE, reconnectAttempts |-> 0, polling |-> FALSE,
   fetching |-> FALSE, fetched |-> NullContent, guestCanEdit |-> FALSE,
   fromEdit |-> FALSE, unsaved |-> FALSE, edits |-> 0, failures |-> 0]

\* an agent whose page has not mounted useRealtimeNote
Unmounted == HookState(FALSE, NullContent)

(* ----- the state of useNoteLock ----- *)
\* isLocked and lockedBy, whether channelRef holds a channel, the reconnect
\* counter, whether a reconnect timeout is set, whether the hook was
\* unmounted, and the setNoteLock(noteId, false, null) call in flight that an
\* effect cleanup made (none, or what ran the cleanup: render or unmount)
LockHookState ==
  [isLocked |-> FALSE, lockedBy |-> NULL, channel |-> TRUE,
   reconnectAttempts |-> 0, reconnectTimer |-> FALSE, tornDown |-> FALSE,
   unlock |-> "none"]

Init ==
  /\ notes = {}
  /\ note_users = {}
  /\ issued = {}
  /\ userRole = [u \in Users |-> "none"]
  /\ lockLocal = [u \in Users |-> LockHookState]
  /\ lockInbox = [u \in Users |-> <<>>]
  /\ hook = [u \in Users |-> Unmounted]
  /\ inbox = [u \in Users |-> <<>>]
  /\ now = 0
  /\ ticks = 0
  /\ calls = [k \in Slots |-> NoPending]
  /\ rateLimitMap = NoEntry
  /\ last = NoCall

(* ----- createNote (POST /api/notes, CreateNoteForm) ----- *)
\* the host row createNote inserts: permission_status is not given, so the
\* column default applies
CreateNoteHostRow(participantId) ==
  [id |-> FreshRowId, user_id |-> participantId, role |-> "host",
   can_edit |-> TRUE, permission_status |-> DefaultPermissionStatus,
   permission_requested_at |-> NULL]

createNote(participantId) ==
  /\ notes = {}
  /\ issued # Users
  /\ participantId = FreshUserId
  /\ notes' = {NewNote}
  /\ note_users' = note_users \cup {CreateNoteHostRow(participantId)}
  /\ issued' = issued \cup {participantId}
  /\ userRole' = [userRole EXCEPT ![participantId] = "host"]
  /\ last' = Call("createNote", participantId, NULL, FALSE, "ok", 0)
  /\ UNCHANGED <<lockLocal, lockInbox, hook, inbox, now, ticks, calls, rateLimitMap>>

(* ----- joinNote ----- *)
JoinInsertRow(userId, role) ==
  [id |-> FreshRowId, user_id |-> userId, role |-> role,
   can_edit |-> (role = "host"),
   permission_status |-> IF role = "host" THEN "granted" ELSE "none",
   permission_requested_at |-> NULL]

\* the update of a rejoin: username, role and joined_at only
JoinUpdateRow(existing, role) == [existing EXCEPT !.role = role]

\* the rows after joinNote(noteId, userId, username, role)
JoinNoteRows(userId, role) ==
  IF IsSingle(RowsOf(userId))
  THEN LET existing == Single(RowsOf(userId)) IN
       (note_users \ {existing}) \cup {JoinUpdateRow(existing, role)}
  ELSE note_users \cup {JoinInsertRow(userId, role)}

joinNote(userId, role) ==
  /\ notes # {}
  /\ userId \in issued
  /\ note_users' = JoinNoteRows(userId, role)
  /\ last' = Call("joinNote", userId, NULL, FALSE, "ok", 0)
  /\ UNCHANGED <<notes, issued, userRole, lockLocal, lockInbox, hook, inbox, now, ticks, calls, rateLimitMap>>

\* joinNote as it runs: first the select of the existing record ...
joinNoteSelect(k, userId, role) ==
  /\ notes # {}
  /\ userId \in issued
  /\ calls[k].op = "none"
  /\ calls' = [calls EXCEPT ![k] =
       [NoPending EXCEPT !.op = "joinNote", !.caller = userId, !.role = role,
                         !.existing = IF IsSingle(RowsOf(userId))
                                      THEN Single(RowsOf(userId)).id ELSE NULL]]
  /\ last' = Call("joinNoteSelect", userId, NULL, FALSE, "ok", 0)
  /\ UNCHANGED <<notes, note_users, issued, userRole, lockLocal, lockInbox, hook,
                 inbox, now, ticks, rateLimitMap>>

\* ... then the write: .update(...).eq('id', existing.id) if the select
\* returned a record, the insert of a new record otherwise
JoinNoteWriteRows(c) ==
  IF c.existing # NULL
  THEN {IF r.id = c.existing THEN JoinUpdateRow(r, c.role) ELSE r : r \in note_users}
  ELSE note_users \cup {JoinInsertRow(c.caller, c.role)}

\* The recorded flag tells whether the call inserted a record
joinNoteWrite(k) ==
  /\ calls[k].op = "joinNote"
  /\ notes # {}
  /\ calls[k].existing = NULL => Cardinality(note_users) < MaxRows
  /\ note_users' = JoinNoteWriteRows(calls[k])
  /\ calls' = [calls EXCEPT ![k] = NoPending]
  /\ last' = Call("joinNote", calls[k].caller, NULL, calls[k].existing = NULL,
                  IF note_users' = note_users /\ calls[k].existing # NULL
                  THEN "update_failed" ELSE "ok", 0)
  /\ UNCHANGED <<notes, issued, userRole, lockLocal, lockInbox, hook, inbox,
                 now, ticks, rateLimitMap>>

(* ----- DELETE /api/notes/[code] ----- *)
\* the passwords a DELETE can carry: the host password, another 4-digit
\* password, and one that is not 4 digits
DeletePasswords == {"hostpw", "wrongpw", "malformed"}

\* variant: the lock ends one millisecond early
IsRateLimitedShort == rateLimitMap.lockedUntil > now + 1

\* rateLimit && rateLimit.lockedUntil > Date.now()
IsRateLimited == rateLimitMap.lockedUntil > now

\* the entry after a well-formed wrong password: the count goes up; at
\* MAX_FAILURES the lock is set and the count reset
FailedAttempt(entry) ==
  IF entry.failCount + 1 >= MAX_FAILURES
  THEN [entry EXCEPT !.failCount = 0, !.lockedUntil = now + LOCK_DURATION_MS]
  ELSE [entry EXCEPT !.failCount = @ + 1]

\* history: the 10 minutes that follow the fifth DELETE with a wrong password
InDeleteLock ==
  /\ rateLimitMap.fifthAt # NULL
  /\ now - rateLimitMap.fifthAt < 10 * 60 * 1000

\* history: one more DELETE with a wrong password, counted outside those 10
\* minutes; the fifth begins them
Counted(entry) ==
  IF InDeleteLock THEN entry
  ELSE IF rateLimitMap.wrong = 4
  THEN [entry EXCEPT !.wrong = 0, !.fifthAt = now]
  ELSE [entry EXCEPT !.wrong = rateLimitMap.wrong + 1]

\* The recorded flag tells whether the password was the host password, the
\* recorded result is the HTTP status
DELETE(password) ==
  /\ notes # {}
  /\ IF IsRateLimited
     THEN /\ last' = Call("DELETE", NULL, NULL, password = "hostpw", "429", 0)
          /\ rateLimitMap' = IF password = "wrongpw"
                             THEN Counted(rateLimitMap) ELSE rateLimitMap
          /\ UNCHANGED <<notes, note_users>>
     ELSE IF password = "malformed"
     THEN /\ last' = Call("DELETE", NULL, NULL, FALSE, "400", 0)
          /\ UNCHANGED <<notes, note_users, rateLimitMap>>
     ELSE IF password # "hostpw"
     THEN /\ rateLimitMap' = Counted(FailedAttempt(rateLimitMap))
          /\ last' = Call("DELETE", NULL, NULL, FALSE,
                          IF rateLimitMap.failCount + 1 >= MAX_FAILURES
                          THEN "429" ELSE "401", 0)
          /\ UNCHANGED <<notes, note_users>>
     ELSE /\ rateLimitMap' = NoEntry
          /\ notes' = {}
          /\ note_users' = {}
          /\ last' = Call("DELETE", NULL, NULL, TRUE, "200", 0)
  /\ UNCHANGED <<issued, userRole, lockLocal, lockInbox, hook, inbox, now, ticks,
                 calls>>

(* ----- POST /api/notes/[code]/verify ----- *)
verifyPassword(password) ==
  IF password = "hostpw" THEN [valid |-> TRUE, role |-> "host"]
  ELSE IF password = "guestpw" THEN [valid |-> TRUE, role |-> "guest"]
  ELSE [valid |-> FALSE, role |-> "none"]

Verify(userId, password) ==
  /\ notes # {}
  /\ issued # Users
  /\ userId = FreshUserId
  /\ LET result == verifyPassword(password) IN
     IF ~result.valid
     THEN /\ last' = Call("verify", NULL, NULL, FALSE, "unauthorized", 0)
          /\ UNCHANGED <<note_users, issued, userRole>>
     ELSE /\ note_users' = JoinNoteRows(userId, result.role)
          /\ issued' = issued \cup {userId}
          /\ userRole' = [userRole EXCEPT ![userId] = result.role]
          /\ last' = Call("verify", userId, NULL, FALSE, "ok", 0)
  /\ UNCHANGED <<notes, lockLocal, lockInbox, hook, inbox, now, ticks, calls, rateLimitMap>>

(* ----- leaveNote ----- *)
leaveNote(userId) ==
  /\ RowsOf(userId) # {}
  /\ note_users' = note_users \ RowsOf(userId)
  /\ last' = Call("leaveNote", userId, NULL, FALSE, "ok", 0)
  /\ UNCHANGED <<notes, issued, userRole, lockLocal, lockInbox, hook, inbox, now, ticks, calls, rateLimitMap>>

(* ----- outcomes shared by the service functions ----- *)
\* a call that returns or throws before it writes: nothing stored changes; the
\* record keeps the operation, the caller, the target, the outcome and the seconds an error
\* message carries
NoWrite(op, caller, target, result, remaining) ==
  /\ last' = Call(op, caller, target, FALSE, result, remaining)
  /\ UNCHANGED <<notes, note_users, issued, userRole, lockLocal, lockInbox, hook, inbox, now, ticks, calls, rateLimitMap>>

\* .update(fields).eq('note_id', noteId).eq('user_id', userId)
UpdateRows(userId, changed) == (note_users \ RowsOf(userId)) \cup changed

\* .eq('user_id', id).eq('role', 'host').single() finds the caller as host
IsStoredHost(userId) ==
  IsSingle({r \in RowsOf(userId) : r.role = "host"})

(* ----- updateUserEditPermission (direct host toggle) ----- *)
\* step 4: the update writes can_edit only
ToggleChange(row, canEdit) == [row EXCEPT !.can_edit = canEdit]

updateUserEditPermission(targetUserId, canEdit, requesterId) ==
  LET op == "updateUserEditPermission" IN
  IF ~IsStoredHost(requesterId)
  THEN NoWrite(op, requesterId, targetUserId, "forbidden", 0)
  ELSE IF ~IsSingle(RowsOf(targetUserId))
  THEN NoWrite(op, requesterId, targetUserId, "not_found", 0)
  ELSE IF Single(RowsOf(targetUserId)).role = "host"
  THEN NoWrite(op, requesterId, targetUserId, "target_is_host", 0)
  ELSE /\ note_users' =
            UpdateRows(targetUserId,
                  {ToggleChange(r, canEdit) : r \in RowsOf(targetUserId)})
       /\ last' = Call(op, requesterId, targetUserId, canEdit, "ok", 0)
       /\ UNCHANGED <<notes, issued, userRole, lockLocal, lockInbox, hook, inbox, now, ticks, calls, rateLimitMap>>

(* ----- requestEditPermission ----- *)
\* (now - lastRequestTime) in ms; elapsedSeconds is this over 1000
ElapsedMs(row) == now - row.permission_requested_at

\* variant: the cooldown applies after a denial only
InCooldownDeniedOnly(row) ==
  /\ row.permission_requested_at # NULL
  /\ ElapsedMs(row) < COOLDOWN_SECONDS * MsPerSecond
  /\ row.permission_status = "denied"

\* step 4: elapsedSeconds < COOLDOWN_SECONDS and status requested or denied
InCooldown(row) ==
  /\ row.permission_requested_at # NULL
  /\ ElapsedMs(row) < COOLDOWN_SECONDS * MsPerSecond
  /\ row.permission_status \in {"requested", "denied"}

\* variant: the remaining time rounded down instead of up
RemainingSecondsFloor(elapsedMs) == (CooldownMs - elapsedMs) \div MsPerSecond

\* Math.ceil(COOLDOWN_SECONDS - elapsedSeconds), elapsedSeconds a real number
RemainingSeconds(elapsedMs) ==
  LET leftMs == COOLDOWN_SECONDS * MsPerSecond - elapsedMs IN
  IF leftMs >= 0 THEN (leftMs + MsPerSecond - 1) \div MsPerSecond
  ELSE -((-leftMs) \div MsPerSecond)

\* step 5: status and timestamp of the request
RequestChange(row) ==
  [row EXCEPT !.permission_status = "requested",
              !.permission_requested_at = now]

\* the recorded flag tells whether the request follows a denial
requestEditPermission(userId) ==
  LET op == "requestEditPermission" IN
  IF ~IsSingle(RowsOf(userId))
  THEN NoWrite(op, userId, NULL, "not_found", 0)
  ELSE LET userData == Single(RowsOf(userId)) IN
    IF userData.role = "host"
    THEN NoWrite(op, userId, NULL, "is_host", 0)
    ELSE IF userData.can_edit
    THEN NoWrite(op, userId, NULL, "already_granted", 0)
    ELSE IF InCooldown(userData)
    THEN NoWrite(op, userId, NULL, "cooldown", RemainingSeconds(ElapsedMs(userData)))
    ELSE /\ note_users' = UpdateRows(userId, {RequestChange(r) : r \in RowsOf(userId)})
         /\ last' = Call(op, userId, userId,
                          userData.permission_status = "denied", "ok", 0)
         /\ UNCHANGED <<notes, issued, userRole, lockLocal, lockInbox, hook, inbox, now, ticks, calls, rateLimitMap>>

(* ----- respondToEditRequest ----- *)
\* variant: a response that writes the status only
RespondChangeStatusOnly(row, approved) ==
  [row EXCEPT !.permission_status = IF approved THEN "granted" ELSE "denied"]

\* step 4: updateData
RespondChange(row, approved) ==
  IF approved
  THEN [row EXCEPT !.can_edit = TRUE, !.permission_status = "granted"]
  ELSE [row EXCEPT !.permission_status = "denied"]

\* variant: a denied request can be answered again
IsRequestedOrDenied(row) == row.permission_status \in {"requested", "denied"}

\* step 3: the target must be in the requested state
IsRequested(row) == row.permission_status = "requested"

respondToEditRequest(targetUserId, approved, hostUserId) ==
  LET op == "respondToEditRequest" IN
  IF ~IsStoredHost(hostUserId)
  THEN NoWrite(op, hostUserId, targetUserId, "forbidden", 0)
  ELSE IF ~IsSingle(RowsOf(targetUserId))
  THEN NoWrite(op, hostUserId, targetUserId, "not_found", 0)
  ELSE IF ~IsRequested(Single(RowsOf(targetUserId)))
  THEN NoWrite(op, hostUserId, targetUserId, "invalid_state", 0)
  ELSE /\ note_users' =
            UpdateRows(targetUserId,
                  {RespondChange(r, approved) : r \in RowsOf(targetUserId)})
       /\ last' = Call(op, hostUserId, targetUserId, approved, "ok", 0)
       /\ UNCHANGED <<notes, issued, userRole, lockLocal, lockInbox, hook, inbox, now, ticks, calls, rateLimitMap>>

\* respondToEditRequest as it runs: first the three reads (steps 1 to 3) ...
respondToEditRequestCheck(k, targetUserId, approved, hostUserId) ==
  /\ calls[k].op = "none"
  /\ IsStoredHost(hostUserId)
  /\ IsSingle(RowsOf(targetUserId))
  /\ IsRequested(Single(RowsOf(targetUserId)))
  /\ calls' = [calls EXCEPT ![k] =
       [NoPending EXCEPT !.op = "respondToEditRequest", !.caller = hostUserId,
                         !.target = targetUserId, !.approve = approved]]
  /\ last' = Call("respondToEditRequestCheck", hostUserId, targetUserId, approved,
                  "ok", 0)
  /\ UNCHANGED <<notes, note_users, issued, userRole, lockLocal, lockInbox, hook,
                 inbox, now, ticks, rateLimitMap>>

\* ... then step 4: .update(updateData).eq('note_id', noteId)
\* .eq('user_id', targetUserId), whatever the status is by then
respondToEditRequestWrite(k) ==
  /\ calls[k].op = "respondToEditRequest"
  /\ note_users' =
       UpdateRows(calls[k].target,
                  {RespondChange(r, calls[k].approve) : r \in RowsOf(calls[k].target)})
  /\ calls' = [calls EXCEPT ![k] = NoPending]
  /\ last' = Call("respondToEditRequestWrite", calls[k].caller, calls[k].target,
                  calls[k].approve,
                  IF IsSingle(RowsOf(calls[k].target)) THEN "ok" ELSE "failed", 0)
  /\ UNCHANGED <<notes, issued, userRole, lockLocal, lockInbox, hook, inbox,
                 now, ticks, rateLimitMap>>

(* ----- cleanupExpiredRequests ----- *)
\* variant: .lte in place of .lt
IsExpiredInclusive(row) ==
  /\ row.permission_status \in {"requested", "denied"}
  /\ row.permission_requested_at # NULL
  /\ row.permission_requested_at <= now - ExpiryMs

\* .in('permission_status', [...]).lt('permission_requested_at', expiryTime)
\* with expiryTime = now - EXPIRY_HOURS * 60 * 60 * 1000; NULL < x is never true
IsExpired(row) ==
  /\ row.permission_status \in {"requested", "denied"}
  /\ row.permission_requested_at # NULL
  /\ row.permission_requested_at < now - ExpiryMs

CleanupChange(row) ==
  [row EXCEPT !.permission_status = "none", !.permission_requested_at = NULL]

\* the recorded flag tells whether the update matched a row
cleanupExpiredRequests ==
  /\ notes # {}
  /\ note_users' = {IF IsExpired(r) THEN CleanupChange(r) ELSE r : r \in note_users}
  /\ last' = Call("cleanupExpiredRequests", NULL, NULL,
                   \E r \in note_users : IsExpired(r), "ok", 0)
  /\ UNCHANGED <<notes, issued, userRole, lockLocal, lockInbox, hook, inbox, now, ticks, calls, rateLimitMap>>

(* ----- the content channel ----- *)
\* the content channel (postgres_changes UPDATE on the note row): every
\* mounted agent whose channel is subscribed (SUBSCRIBED was reported, and no
\* failure or close since) is sent payload.new of the row, in the order of the
\* writes;
\* by is history: the agent whose content write it reports, NULL for any
\* other write
ContentPayload(row, by) == [content_json |-> row.content_json, by |-> by]

ContentRoom == \A u \in Users : Len(inbox[u]) < MaxPending

NotifyContent(rows, by) ==
  [u \in Users |->
     IF hook[u].mounted /\ hook[u].isConnected
     THEN inbox[u] \o [i \in 1..Cardinality(rows) |->
                         ContentPayload(Single(rows), by)]
     ELSE inbox[u]]

(* ----- setNoteLock and the useNoteLock hook ----- *)
\* the row setNoteLock writes: is_locked, locked_by and last_modified, with no
\* read of the caller or of the stored holder
SetNoteLockRow(row, isLocked, lockedBy) ==
  [row EXCEPT !.is_locked = isLocked, !.locked_by = lockedBy,
              !.last_modified = now]

setNoteLock(isLocked, lockedBy) ==
  {SetNoteLockRow(n, isLocked, lockedBy) : n \in notes}

\* requestLock's gate: the role prop of the hook, i.e. the role the client holds
MayLock(userId) == userRole[userId] = "host"

\* the lock channel (postgres_changes UPDATE on the note row): every agent that
\* holds the hook is sent payload.new of the row, in the order of the writes
LockPayload(row) == [is_locked |-> row.is_locked, locked_by |-> row.locked_by]

LockRoom == \A u \in issued : Len(lockInbox[u]) < MaxPending

NotifyLock(rows) ==
  [u \in Users |->
     IF u \in issued /\ ~lockLocal[u].tornDown
     THEN lockInbox[u] \o [i \in 1..Cardinality(rows) |-> LockPayload(Single(rows))]
     ELSE lockInbox[u]]

\* the condition of the cleanup of the last effect of the hook, read from
\* the render in which the effect ran
HeldBySelf(userId, l) == MayLock(userId) /\ l.isLocked /\ l.lockedBy = userId

\* the hook renders with a new isLocked / lockedBy: the effect whose
\* dependencies are [noteId, userId, role, isLocked, lockedBy] is run again,
\* and its cleanup, with the values of the previous render, calls
\* setNoteLock(noteId, false, null) if the agent held the lock in that render
Rerender(userId, isLocked, lockedBy) ==
  [lockLocal[userId] EXCEPT
     !.isLocked = isLocked, !.lockedBy = lockedBy,
     !.unlock = IF /\ HeldBySelf(userId, lockLocal[userId])
                   /\ (isLocked # lockLocal[userId].isLocked
                       \/ lockedBy # lockLocal[userId].lockedBy)
                THEN "render" ELSE @]

requestLock(userId) ==
  LET op == "requestLock" IN
  /\ userId \in issued
  /\ ~lockLocal[userId].tornDown
  /\ notes # {}
  /\ IF ~MayLock(userId)
     THEN NoWrite(op, userId, NULL, "guest", 0)
     ELSE IF lockLocal[userId].isLocked /\ lockLocal[userId].lockedBy = userId
     THEN NoWrite(op, userId, NULL, "already_held", 0)
     ELSE /\ LockRoom
          /\ ContentRoom
          /\ notes' = setNoteLock(TRUE, userId)
          /\ lockInbox' = NotifyLock(setNoteLock(TRUE, userId))
          /\ inbox' = NotifyContent(setNoteLock(TRUE, userId), NULL)
          /\ lockLocal' = [lockLocal EXCEPT
                             ![userId] = Rerender(userId, TRUE, userId)]
          /\ last' = Call(op, userId, NULL, TRUE, "ok", 0)
          /\ UNCHANGED <<note_users, issued, userRole, hook, now, ticks, calls, rateLimitMap>>

releaseLock(userId) ==
  LET op == "releaseLock" IN
  /\ userId \in issued
  /\ ~lockLocal[userId].tornDown
  /\ notes # {}
  /\ IF ~MayLock(userId)
     THEN NoWrite(op, userId, NULL, "guest", 0)
     ELSE IF lockLocal[userId].lockedBy # userId /\ lockLocal[userId].lockedBy # NULL
     THEN NoWrite(op, userId, NULL, "not_holder", 0)
     ELSE /\ LockRoom
          /\ ContentRoom
          /\ notes' = setNoteLock(FALSE, NULL)
          /\ lockInbox' = NotifyLock(setNoteLock(FALSE, NULL))
          /\ inbox' = NotifyContent(setNoteLock(FALSE, NULL), NULL)
          /\ lockLocal' = [lockLocal EXCEPT
                             ![userId] = Rerender(userId, FALSE, NULL)]
          /\ last' = Call(op, userId, NULL, FALSE, "ok", 0)
          /\ UNCHANGED <<note_users, issued, userRole, hook, now, ticks, calls, rateLimitMap>>

\* the postgres_changes UPDATE handler of the lock channel: the agent takes
\* is_locked and locked_by from the next payload it was sent
lockUpdateHandler(userId) ==
  /\ userId \in issued
  /\ ~lockLocal[userId].tornDown
  /\ lockInbox[userId] # <<>>
  /\ LET newData == Head(lockInbox[userId]) IN
     lockLocal' = [lockLocal EXCEPT
       ![userId] = Rerender(userId, newData.is_locked, newData.locked_by)]
  /\ lockInbox' = [lockInbox EXCEPT ![userId] = Tail(@)]
  /\ last' = Call("lockUpdateHandler", userId, NULL, FALSE, "ok", 0)
  /\ UNCHANGED <<notes, note_users, issued, userRole, hook, inbox, now, ticks, calls, rateLimitMap>>

\* the store applies the setNoteLock(noteId, false, null) call an effect
\* cleanup of the agent's hook made.  The recorded result tells what ran the
\* cleanup
effectUnlock(userId) ==
  /\ lockLocal[userId].unlock # "none"
  /\ notes # {}
  /\ LockRoom
  /\ ContentRoom
  /\ notes' = setNoteLock(FALSE, NULL)
  /\ lockInbox' = NotifyLock(setNoteLock(FALSE, NULL))
  /\ inbox' = NotifyContent(setNoteLock(FALSE, NULL), NULL)
  /\ lockLocal' = [lockLocal EXCEPT ![userId].unlock = "none"]
  /\ last' = Call("effectUnlock", userId, NULL, FALSE, lockLocal[userId].unlock, 0)
  /\ UNCHANGED <<note_users, issued, userRole, hook, now, ticks, calls, rateLimitMap>>

\* the lock channel reports a status to the subscribe callback: SUBSCRIBED
\* resets the counter; a failure below MAX_RECONNECT_ATTEMPTS increments it
\* and sets a timeout that calls subscribeToLock
lockChannelStatus(userId, status) ==
  /\ userId \in issued
  /\ lockLocal[userId].channel
  /\ lockLocal' = [lockLocal EXCEPT ![userId] =
       IF status = "SUBSCRIBED" THEN [@ EXCEPT !.reconnectAttempts = 0]
       ELSE IF status = "CLOSED" THEN @
       ELSE IF @.reconnectAttempts < MAX_RECONNECT_ATTEMPTS
            THEN [@ EXCEPT !.reconnectAttempts = @ + 1, !.reconnectTimer = TRUE]
            ELSE @]
  /\ last' = Call(status, userId, NULL, FALSE, "lock", 0)
  /\ UNCHANGED <<notes, note_users, issued, userRole, lockInbox, hook, inbox,
                 now, ticks, calls, rateLimitMap>>

\* the reconnect timeout fires and runs subscribeToLock: the channel
\* channelRef holds, if any, is removed and a new one is opened and kept in
\* channelRef
lockReconnectFires(userId) ==
  /\ lockLocal[userId].reconnectTimer
  /\ lockLocal' = [lockLocal EXCEPT ![userId].reconnectTimer = FALSE,
                                    ![userId].channel = TRUE]
  /\ last' = Call("subscribeToLock", userId, NULL, lockLocal[userId].tornDown,
                  "ok", 0)
  /\ UNCHANGED <<notes, note_users, issued, userRole, lockInbox, hook, inbox,
                 now, ticks, calls, rateLimitMap>>

\* the agent's page unmounts.  useNoteLock: the channel is removed, and the
\* cleanup of the last effect calls setNoteLock(noteId, false, null) if the
\* agent held the lock in the last render.  useRealtimeNote: the channel is
\* removed, the debounce timer and the polling timer are cleared.  The
\* recorded flag tells whether the unlock call was made
unmount(userId) ==
  /\ userId \in issued
  /\ ~lockLocal[userId].tornDown
  /\ lockLocal' = [lockLocal EXCEPT ![userId] =
       [@ EXCEPT !.tornDown = TRUE, !.channel = FALSE,
                 !.unlock = IF HeldBySelf(userId, lockLocal[userId])
                            THEN "unmount" ELSE @]]
  /\ hook' = [hook EXCEPT ![userId] =
       [@ EXCEPT !.mounted = FALSE, !.timer = FALSE, !.polling = FALSE]]
  /\ lockInbox' = [lockInbox EXCEPT ![userId] = <<>>]
  /\ inbox' = [inbox EXCEPT ![userId] = <<>>]
  /\ last' = Call("unmount", userId, NULL, HeldBySelf(userId, lockLocal[userId]),
                  "ok", 0)
  /\ UNCHANGED <<notes, note_users, issued, userRole, now, ticks, calls, rateLimitMap>>

(* ----- updateNoteContentJson, updateNoteTitle and the content channel ----- *)
\* variant: a write that stores the document and keeps the old plain text
UpdateContentRowJsonOnly(row, contentJson, stamp) ==
  [row EXCEPT !.content_json = Jsonb(contentJson), !.last_modified = stamp]

\* the row updateNoteContentJson writes: the document, its plain-text backup
\* and the caller's new Date() in one UPDATE
UpdateContentRow(row, contentJson, stamp) ==
  [row EXCEPT !.content_json = Jsonb(contentJson),
              !.content = tiptapJsonToText(contentJson),
              !.last_modified = stamp]

\* updateNoteTitle (PATCH /api/notes/[code] with a title): the title is not
\* read by any modelled operation; the write stamps last_modified
updateNoteTitle ==
  /\ notes # {}
  /\ ContentRoom
  /\ notes' = {[n EXCEPT !.last_modified = now] : n \in notes}
  /\ inbox' = NotifyContent(notes', NULL)
  /\ last' = Call("updateNoteTitle", NULL, NULL, FALSE, "ok", 0)
  /\ UNCHANGED <<note_users, issued, userRole, lockLocal, lockInbox, hook, now, ticks, calls, rateLimitMap>>

(* ----- useRealtimeNote ----- *)
\* GET /api/notes/[code]: content_json, or textToTiptapJson(content) when it
\* is null (content is '' as long as content_json is null)
InitialContentJson(row) ==
  IF row.content_json.isNull THEN EmptyDoc ELSE row.content_json

\* the page has loaded the note: the hook starts from the loaded document and
\* subscribes to the content channel
\* useEditPermission: isHost || currentUser.can_edit === true
StoredCanEdit(userId) ==
  userRole[userId] = "host" \/ \E r \in RowsOf(userId) : r.can_edit

mount(userId) ==
  /\ userId \in issued
  /\ ~hook[userId].mounted
  /\ ~lockLocal[userId].tornDown
  /\ \E n \in notes :
       hook' = [hook EXCEPT ![userId] =
                  [HookState(TRUE, InitialContentJson(n))
                     EXCEPT !.guestCanEdit = StoredCanEdit(userId)]]
  /\ last' = Call("mount", userId, NULL, FALSE, "ok", 0)
  /\ UNCHANGED <<notes, note_users, issued, userRole, lockLocal, lockInbox, inbox,
                 now, ticks, calls, rateLimitMap>>

\* the debounce effect after a render in which contentJson or saveContent
\* changed: the old timer is cleared, a new one is set if a save is pending
DebounceEffect(h) == [h EXCEPT !.timer = h.pendingSave]

\* setContentJson(newContentJson): a local edit
setContentJson(userId, newContentJson) ==
  /\ hook[userId].mounted
  /\ hook[userId].edits < MaxEdits
  /\ newContentJson # hook[userId].contentJson
  /\ hook' = [hook EXCEPT ![userId] =
       DebounceEffect([@ EXCEPT !.isLocalChange = TRUE, !.pendingSave = TRUE,
                                !.contentJson = newContentJson,
                                !.fromEdit = TRUE, !.unsaved = TRUE,
                                !.edits = @ + 1])]
  /\ last' = Call("setContentJson", userId, NULL, FALSE, "ok", 0)
  /\ UNCHANGED <<notes, note_users, issued, userRole, lockLocal, lockInbox, inbox,
                 now, ticks, calls, rateLimitMap>>

\* the note_users channel of useEditPermission delivers the agent's updated
\* record: canEdit follows the stored can_edit
permissionUpdateHandler(userId) ==
  /\ hook[userId].mounted
  /\ hook[userId].guestCanEdit # StoredCanEdit(userId)
  /\ hook' = [hook EXCEPT ![userId].guestCanEdit = StoredCanEdit(userId)]
  /\ last' = Call("permissionUpdateHandler", userId, NULL, StoredCanEdit(userId),
                  "ok", 0)
  /\ UNCHANGED <<notes, note_users, issued, userRole, lockLocal, lockInbox, inbox,
                 now, ticks, calls, rateLimitMap>>

\* the page's handleContentJsonChange: the editor's change reaches
\* setContentJson only for the host or a guest whose canEdit is true
handleContentJsonChange(userId, newContentJson) ==
  /\ userRole[userId] = "host" \/ hook[userId].guestCanEdit
  /\ setContentJson(userId, newContentJson)

\* the debounce timer fires and runs saveContent: nothing if a save is in
\* flight or there is no document; otherwise isSaving is set and
\* updateNoteContentJson is called with the current document (the call reads
\* the clock for last_modified), and the effect runs again for the new
\* saveContent
debounceFires(userId) ==
  /\ hook[userId].mounted
  /\ hook[userId].timer
  /\ IF hook[userId].isSaving \/ hook[userId].contentJson.isNull
     THEN /\ hook' = [hook EXCEPT ![userId].timer = FALSE]
          /\ last' = Call("saveContent", userId, NULL, FALSE, "skipped", 0)
     ELSE /\ hook' = [hook EXCEPT ![userId] =
               DebounceEffect([@ EXCEPT !.timer = FALSE, !.isSaving = TRUE,
                                        !.request = "sent",
                                        !.sending = hook[userId].contentJson,
                                        !.stamp = now,
                                        !.unsaved = @ /\ ~hook[userId].fromEdit])]
          /\ last' = Call("saveContent", userId, NULL, TRUE, "ok", 0)
  /\ UNCHANGED <<notes, note_users, issued, userRole, lockLocal, lockInbox, inbox,
                 now, ticks, calls, rateLimitMap>>

\* updateNoteContentJson called outside the hook (PATCH /api/notes/[code] with
\* content_json): the call reads the clock for last_modified and sends the
\* UPDATE
updateNoteContentJson(userId, contentJson) ==
  /\ userId \in issued
  /\ notes # {}
  /\ ~hook[userId].mounted
  /\ hook[userId].request = "none"
  /\ hook' = [hook EXCEPT ![userId].request = "sent",
                          ![userId].sending = contentJson,
                          ![userId].stamp = now]
  /\ last' = Call("PATCH", userId, NULL, FALSE, "ok", 0)
  /\ UNCHANGED <<notes, note_users, issued, userRole, lockLocal, lockInbox, inbox,
                 now, ticks, calls, rateLimitMap>>

\* the store applies the UPDATE of an updateNoteContentJson call in flight and
\* the change is published on the content channel
storeUpdate(userId) ==
  /\ hook[userId].request = "sent"
  /\ notes # {}
  /\ ContentRoom
  /\ notes' = {UpdateContentRow(n, hook[userId].sending, hook[userId].stamp) :
                 n \in notes}
  /\ inbox' = NotifyContent(notes', userId)
  /\ hook' = [hook EXCEPT ![userId].request = "stored"]
  /\ last' = Call("updateNoteContentJson", userId, NULL, FALSE, "ok", 0)
  /\ UNCHANGED <<note_users, issued, userRole, lockLocal, lockInbox, now, ticks, calls, rateLimitMap>>

\* the await of saveContent resolves: pendingSaveRef is cleared, isSaving is
\* reset, and the effect runs again for the new saveContent
saveResolves(userId) ==
  /\ hook[userId].request = "stored"
  /\ hook' = [hook EXCEPT ![userId] =
       DebounceEffect([@ EXCEPT !.pendingSave = FALSE, !.isSaving = FALSE,
                                !.request = "none"])]
  /\ last' = Call("saveResolves", userId, NULL, FALSE, "ok", 0)
  /\ UNCHANGED <<notes, note_users, issued, userRole, lockLocal, lockInbox, inbox,
                 now, ticks, calls, rateLimitMap>>

\* the condition under which an inbound document replaces the local one
Applies(h, contentJson) ==
  ~h.isLocalChange /\ ~isContentJsonEqual(contentJson, h.contentJson)

\* the postgres_changes UPDATE handler: the next payload replaces the local
\* document under Applies; isLocalChangeRef is cleared in every case.  The
\* recorded flag tells whether the document was replaced
handleUpdate(userId) ==
  /\ hook[userId].mounted
  /\ inbox[userId] # <<>>
  /\ LET newData == Head(inbox[userId])
         applied == Applies(hook[userId], newData.content_json) IN
     /\ hook' = [hook EXCEPT ![userId] =
          IF applied
          THEN DebounceEffect([@ EXCEPT !.contentJson = newData.content_json,
                                       !.fromEdit = FALSE,
                                       !.isLocalChange = FALSE])
          ELSE [@ EXCEPT !.isLocalChange = FALSE]]
     /\ last' = Call("handleUpdate", userId, newData.by, applied, "ok", 0)
  /\ inbox' = [inbox EXCEPT ![userId] = Tail(@)]
  /\ UNCHANGED <<notes, note_users, issued, userRole, lockLocal, lockInbox, now, ticks, calls, rateLimitMap>>

\* variant: SUBSCRIBED leaves the polling timer running
SubscribedKeepsPolling(h) ==
  [h EXCEPT !.isConnected = TRUE, !.reconnectAttempts = 0]

\* the status callback on SUBSCRIBED: connected, counter reset, stopPolling()
Subscribed(h) ==
  [h EXCEPT !.isConnected = TRUE, !.reconnectAttempts = 0, !.polling = FALSE]

\* the status callback on CHANNEL_ERROR or TIMED_OUT: not connected; the
\* counter is incremented while it is below MAX_RECONNECT_ATTEMPTS, otherwise
\* startPolling() sets the interval timer
ChannelFailed(h) ==
  IF h.reconnectAttempts < MAX_RECONNECT_ATTEMPTS
  THEN [h EXCEPT !.isConnected = FALSE, !.reconnectAttempts = @ + 1]
  ELSE [h EXCEPT !.isConnected = FALSE, !.polling = TRUE]

\* the status callback on CLOSED
ChannelClosed(h) == [h EXCEPT !.isConnected = FALSE]

ChannelStatus == {"SUBSCRIBED", "CHANNEL_ERROR", "TIMED_OUT", "CLOSED"}

\* the content channel reports a status to the subscribe callback (a
\* subscribed channel reports SUBSCRIBED again only after a failure or close).
\* The recorded flag tells whether the polling timer was set before the call
subscribeStatus(userId, status) ==
  /\ hook[userId].mounted
  /\ status = "SUBSCRIBED" => ~hook[userId].isConnected
  /\ status = "CLOSED" => hook[userId].isConnected
  /\ hook' = [hook EXCEPT ![userId] =
       IF status = "SUBSCRIBED" THEN [Subscribed(@) EXCEPT !.failures = 0]
       ELSE IF status = "CLOSED" THEN ChannelClosed(@)
       ELSE [ChannelFailed(@) EXCEPT !.failures =
               IF @ > MAX_RECONNECT_ATTEMPTS THEN @ ELSE @ + 1]]
  /\ last' = Call(status, userId, NULL, hook[userId].polling, "ok", 0)
  /\ UNCHANGED <<notes, note_users, issued, userRole, lockLocal, lockInbox, inbox,
                 now, ticks, calls, rateLimitMap>>

\* the polling timer fires and fetchNoteContent reads content_json of the row
pollFires(userId) ==
  /\ hook[userId].mounted
  /\ hook[userId].polling
  /\ ~hook[userId].fetching
  /\ \E n \in notes :
       hook' = [hook EXCEPT ![userId].fetching = TRUE,
                            ![userId].fetched = n.content_json]
  /\ last' = Call("pollFires", userId, NULL, FALSE, "ok", 0)
  /\ UNCHANGED <<notes, note_users, issued, userRole, lockLocal, lockInbox, inbox,
                 now, ticks, calls, rateLimitMap>>

\* the await of fetchNoteContent resolves: the document read replaces the
\* local one unless isLocalChangeRef is set or the two are equal;
\* isLocalChangeRef is left as it is.  The recorded flag tells whether the
\* document was replaced
fetchNoteContent(userId) ==
  /\ hook[userId].mounted
  /\ hook[userId].fetching
  /\ LET applied == Applies(hook[userId], hook[userId].fetched) IN
     /\ hook' = [hook EXCEPT ![userId] =
          IF applied
          THEN DebounceEffect([@ EXCEPT !.contentJson = hook[userId].fetched,
                                       !.fromEdit = FALSE,
                                       !.fetching = FALSE,
                                       !.fetched = NullContent])
          ELSE [@ EXCEPT !.fetching = FALSE, !.fetched = NullContent]]
     /\ last' = Call("fetchNoteContent", userId, NULL, applied, "ok", 0)
  /\ UNCHANGED <<notes, note_users, issued, userRole, lockLocal, lockInbox, inbox,
                 now, ticks, calls, rateLimitMap>>

(* ----- the wall clock ----- *)
Tick(d) ==
  /\ notes # {}
  /\ ticks < MaxTicks
  /\ now' = now + d
  /\ ticks' = ticks + 1
  /\ last' = Call("tick", NULL, NULL, FALSE, "ok", 0)
  /\ UNCHANGED <<notes, note_users, issued, userRole, lockLocal, lockInbox, hook, inbox,
                 calls, rateLimitMap>>

\* the clock of the request / deny / request scenario: 0 s, 10 s, 15 s, 46 s
TraceTimes == <<0, 10 * MsPerSecond, 15 * MsPerSecond, 46 * MsPerSecond>>

TraceTick ==
  /\ notes # {}
  /\ ticks < MaxTraceTicks
  /\ ticks + 1 < Len(TraceTimes)
  /\ now' = TraceTimes[ticks + 2]
  /\ ticks' = ticks + 1
  /\ last' = Call("tick", NULL, NULL, FALSE, "ok", 0)
  /\ UNCHANGED <<notes, note_users, issued, userRole, lockLocal, lockInbox, hook, inbox,
                 calls, rateLimitMap>>

(* ----- the permission arbiter as the routes and hooks drive it ----- *)
Next ==
  \/ \E u \in Users : createNote(u)
  \/ \E u \in Users, p \in Passwords : Verify(u, p)
  \/ \E u \in Users : leaveNote(u)
  \/ \E t \in Users, e \in BOOLEAN, h \in Users : updateUserEditPermission(t, e, h)
  \/ \E u \in Users : requestEditPermission(u)
  \/ \E t \in Users, a \in BOOLEAN, h \in Users : respondToEditRequest(t, a, h)
  \/ cleanupExpiredRequests
  \/ \E d \in Deltas : Tick(d)

Spec == Init /\ [][Next]_vars

(* ----- the service functions called directly, joinNote with any id ----- *)
NextService ==
  \/ \E u \in Users : createNote(u)
  \/ \E u \in Users, p \in Passwords : Verify(u, p)
  \/ \E u \in Users, r \in UserRole : joinNote(u, r)
  \/ \E u \in Users : leaveNote(u)
  \/ \E t \in Users, e \in BOOLEAN, h \in Users : updateUserEditPermission(t, e, h)
  \/ \E u \in Users : requestEditPermission(u)
  \/ \E t \in Users, a \in BOOLEAN, h \in Users : respondToEditRequest(t, a, h)
  \/ cleanupExpiredRequests

SpecService == Init /\ [][NextService]_vars

(* ----- joinNote calls that overlap, with leaves in between ----- *)
NextJoin ==
  \/ \E u \in Users : createNote(u)
  \/ \E u \in Users : Verify(u, "guestpw")
  \/ \E u \in Users : leaveNote(u)
  \/ \E k \in Slots, u \in Users, r \in UserRole : joinNoteSelect(k, u, r)
  \/ \E k \in Slots : joinNoteWrite(k)

SpecJoin == Init /\ [][NextJoin]_vars

(* ----- responses that overlap with a cleanup, a leave or each other ----- *)
NextRespond ==
  \/ \E u \in Users : createNote(u)
  \/ \E u \in Users : Verify(u, "guestpw")
  \/ \E u \in Users : leaveNote(u)
  \/ \E u \in Users : requestEditPermission(u)
  \/ \E k \in Slots, t \in Users, a \in BOOLEAN, h \in Users :
        respondToEditRequestCheck(k, t, a, h)
  \/ \E k \in Slots : respondToEditRequestWrite(k)
  \/ cleanupExpiredRequests
  \/ \E d \in {ExpiryMs + 1} : Tick(d)

SpecRespond == Init /\ [][NextRespond]_vars

(* ----- a guest's page while the host grants and revokes the edit right ----- *)
\* the page of an agent that entered with the guest password
guestMount(userId) ==
  /\ userRole[userId] = "guest"
  /\ mount(userId)

NextGuest ==
  \/ \E u \in Users : createNote(u)
  \/ \E u \in Users : Verify(u, "guestpw")
  \/ \E t \in Users, e \in BOOLEAN, h \in Users : updateUserEditPermission(t, e, h)
  \/ \E u \in Users : guestMount(u)
  \/ \E u \in Users : permissionUpdateHandler(u)
  \/ \E u \in Users, c \in EditDocs : handleContentJsonChange(u, c)
  \/ \E u \in Users : debounceFires(u)
  \/ \E u \in Users : storeUpdate(u)
  \/ \E u \in Users : saveResolves(u)

SpecGuest == Init /\ [][NextGuest]_vars

(* ----- DELETE requests over time ----- *)
NextDelete ==
  \/ \E u \in Users : createNote(u)
  \/ \E p \in DeletePasswords : DELETE(p)
  \/ \E d \in {1, LOCK_DURATION_MS - 1} : Tick(d)

SpecDelete == Init /\ [][NextDelete]_vars

(* ----- the host-only operations: permission responses and the lock ----- *)
NextLock ==
  \/ \E u \in Users : createNote(u)
  \/ \E u \in Users, p \in Passwords : Verify(u, p)
  \/ \E u \in Users : leaveNote(u)
  \/ \E t \in Users, e \in BOOLEAN, h \in Users : updateUserEditPermission(t, e, h)
  \/ \E u \in Users : requestEditPermission(u)
  \/ \E t \in Users, a \in BOOLEAN, h \in Users : respondToEditRequest(t, a, h)
  \/ \E u \in Users : requestLock(u)
  \/ \E u \in Users : releaseLock(u)
  \/ \E u \in Users : lockUpdateHandler(u)
  \/ \E u \in Users : effectUnlock(u)

SpecLock == Init /\ [][NextLock]_vars

(* ----- the content pipeline: local edits, saves, the store, notifications ----- *)
NextSync ==
  \/ \E u \in Users : createNote(u)
  \/ \E u \in Users : Verify(u, "guestpw")
  \/ \E u \in Users : mount(u)
  \/ \E u \in Users : subscribeStatus(u, "SUBSCRIBED")
  \/ \E u \in Users, c \in EditDocs : setContentJson(u, c)
  \/ \E u \in Users : debounceFires(u)
  \/ \E u \in Users : storeUpdate(u)
  \/ \E u \in Users : saveResolves(u)
  \/ \E u \in Users : handleUpdate(u)

SpecSync == Init /\ [][NextSync]_vars

\* timers fire, the store answers, promises resolve and the channel delivers
SyncFairness ==
  \A u \in Users :
    /\ WF_vars(debounceFires(u))
    /\ WF_vars(storeUpdate(u))
    /\ WF_vars(saveResolves(u))
    /\ WF_vars(handleUpdate(u))

SpecSyncFair == SpecSync /\ SyncFairness

(* ----- the content channel's status and the polling fallback ----- *)
NextChannel ==
  \/ \E u \in Users : createNote(u)
  \/ \E u \in Users : Verify(u, "guestpw")
  \/ \E u \in Users : mount(u)
  \/ \E u \in Users, st \in ChannelStatus : subscribeStatus(u, st)
  \/ \E u \in Users : pollFires(u)
  \/ \E u \in Users : fetchNoteContent(u)

SpecChannel == Init /\ [][NextChannel]_vars

(* ----- the host's page with a channel that may be down, the other ----- *)
(* ----- participants writing through PATCH /api/notes/[code]        ----- *)
hostMount(userId) == userRole[userId] = "host" /\ mount(userId)

NextPoll ==
  \/ \E u \in Users : createNote(u)
  \/ \E u \in Users : Verify(u, "guestpw")
  \/ \E u \in Users : hostMount(u)
  \/ \E u \in Users, st \in {"SUBSCRIBED", "CHANNEL_ERROR"} : subscribeStatus(u, st)
  \/ \E u \in Users : pollFires(u)
  \/ \E u \in Users : fetchNoteContent(u)
  \/ \E u \in Users, c \in EditDocs : setContentJson(u, c)
  \/ \E u \in Users : debounceFires(u)
  \/ \E u \in Users, c \in EditDocs : updateNoteContentJson(u, c)
  \/ \E u \in Users : storeUpdate(u)
  \/ \E u \in Users : saveResolves(u)
  \/ \E u \in Users : handleUpdate(u)

SpecPoll == Init /\ [][NextPoll]_vars

\* timers fire, the store answers, promises resolve and a subscribed channel
\* delivers; nothing obliges a channel to become subscribed
PollFairness ==
  \A u \in Users :
    /\ WF_vars(debounceFires(u))
    /\ WF_vars(storeUpdate(u))
    /\ WF_vars(saveResolves(u))
    /\ WF_vars(handleUpdate(u))
    /\ WF_vars(pollFires(u))
    /\ WF_vars(fetchNoteContent(u))

SpecPollFair == SpecPoll /\ PollFairness

(* ----- content, title and lock writes that reach the store over time ----- *)
NextStore ==
  \/ \E u \in Users : createNote(u)
  \/ \E u \in Users : Verify(u, "guestpw")
  \/ \E u \in Users, c \in EditDocs : updateNoteContentJson(u, c)
  \/ \E u \in Users : storeUpdate(u)
  \/ \E u \in Users : saveResolves(u)
  \/ updateNoteTitle
  \/ \E u \in Users : requestLock(u)
  \/ \E d \in Deltas : Tick(d)

SpecStore == Init /\ [][NextStore]_vars

(* ----- content writes of several callers ----- *)
NextWrites ==
  \/ \E u \in Users : createNote(u)
  \/ \E u \in Users : Verify(u, "guestpw")
  \/ \E u \in Users, c \in EditDocs : updateNoteContentJson(u, c)
  \/ \E u \in Users : storeUpdate(u)
  \/ \E u \in Users : saveResolves(u)

SpecWrites == Init /\ [][NextWrites]_vars

(* ----- requests and responses along the scenario clock ----- *)
NextTrace ==
  \/ \E u \in Users : createNote(u)
  \/ \E u \in Users, p \in Passwords : Verify(u, p)
  \/ \E u \in Users : requestEditPermission(u)
  \/ \E t \in Users, a \in BOOLEAN, h \in Users : respondToEditRequest(t, a, h)
  \/ TraceTick

SpecTrace == Init /\ [][NextTrace]_vars

(* ----- the lock hook of several agents over time ----- *)
NextLockHook ==
  \/ \E u \in Users : createNote(u)
  \/ \E u \in Users, p \in Passwords : Verify(u, p)
  \/ \E u \in Users : requestLock(u)
  \/ \E u \in Users : releaseLock(u)
  \/ \E u \in Users : lockUpdateHandler(u)
  \/ \E u \in Users : effectUnlock(u)
  \/ \E d \in Deltas : Tick(d)

SpecLockHook == Init /\ [][NextLockHook]_vars

(* ----- the host's hooks from mount to unmount ----- *)
NextTeardown ==
  \/ \E u \in Users : createNote(u)
  \/ \E u \in Users : requestLock(u)
  \/ \E u \in Users : releaseLock(u)
  \/ \E u \in Users : lockUpdateHandler(u)
  \/ \E u \in Users : effectUnlock(u)
  \/ \E u \in Users, st \in ChannelStatus : lockChannelStatus(u, st)
  \/ \E u \in Users : lockReconnectFires(u)
  \/ \E u \in Users : mount(u)
  \/ \E u \in Users, st \in ChannelStatus : subscribeStatus(u, st)
  \/ \E u \in Users, c \in EditDocs : setContentJson(u, c)
  \/ \E u \in Users : unmount(u)

SpecTeardown == Init /\ [][NextTeardown]_vars

(***************************************************************************)
(* Properties                                                              *)
(***************************************************************************)
HostRows == {r \in note_users : r.role = "host"}
GuestRows == {r \in note_users : r.role = "guest"}

\* C1: every stored host record has can_edit = true and
\* permission_status = 'granted', whatever operations ran.
C1_HostAlwaysGranted ==
  \A r \in HostRows : r.can_edit /\ r.permission_status = "granted"

\* C2: after createNote and any number of admissions through the verify route
\* (nobody having left), the note has exactly one host record.
C2_ExactlyOneHost ==
  (notes # {} /\ \A u \in issued : RowsOf(u) # {}) => Cardinality(HostRows) = 1

\* the status changes the specification lists for a guest record
ListedStatusChange(before, after) ==
  LET b == before.permission_status
      a == after.permission_status IN
  \/ a = b
  \/ <<b, a>> \in {<<"none", "requested">>, <<"requested", "granted">>,
                   <<"requested", "denied">>, <<"granted", "none">>,
                   <<"denied", "none">>}
  \/ /\ <<b, a>> = <<"denied", "requested">>
     /\ before.permission_requested_at # NULL
     /\ now - before.permission_requested_at >= CooldownMs

\* C3: in every step, the permission_status of every guest record changes only
\* along none->requested, requested->granted, requested->denied,
\* denied->requested (after the cooldown), granted->none or denied->none.
C3_OnlyListedStatusChanges ==
  [][\A u \in Users :
       (/\ IsSingle(RowsOf(u)) /\ IsSingle(RowsOf(u)')
        /\ Single(RowsOf(u)).role = "guest"
        /\ Single(RowsOf(u)').role = "guest")
       => ListedStatusChange(Single(RowsOf(u)), Single(RowsOf(u)'))]_vars

\* the row of a participant that has exactly one
RowOf(u) == Single(RowsOf(u))

\* a stored request younger than the 30 s cooldown, in status requested or denied
CoolingDown(row) ==
  /\ row.permission_status \in {"requested", "denied"}
  /\ row.permission_requested_at # NULL
  /\ now - row.permission_requested_at < 30 * 1000

\* C4: requestEditPermission for a guest in status requested or denied whose
\* request is less than 30 s old fails with the cooldown error and leaves the
\* records unchanged; for a guest with can_edit = false that is not in cooldown
\* it succeeds and stores permission_status = 'requested' and
\* permission_requested_at = now.
C4_CooldownContract ==
  [][\A u \in Users :
       (/\ last'.op = "requestEditPermission" /\ last'.caller = u
        /\ IsSingle(RowsOf(u)) /\ RowOf(u).role = "guest")
       => /\ CoolingDown(RowOf(u))
             => (last'.result = "cooldown" /\ note_users' = note_users)
          /\ (~RowOf(u).can_edit /\ ~CoolingDown(RowOf(u)))
             => /\ last'.result = "ok"
                /\ note_users' = (note_users \ {RowOf(u)}) \cup
                     {[RowOf(u) EXCEPT !.permission_status = "requested",
                                       !.permission_requested_at = now]}]_vars

\* C5 as stated: every cooldown failure reports a remaining time r with
\* 0 < r < 30 seconds.
C5_RemainingBelowThirty ==
  last.result = "cooldown" => (0 < last.remaining /\ last.remaining < 30)

\* C5: every cooldown failure reports a remaining time r with 0 < r <= 30
\* seconds (r = 30 while less than one second has elapsed).
C5_RemainingAtMostThirty ==
  last.result = "cooldown" => (0 < last.remaining /\ last.remaining <= 30)

\* a cooldown failure one millisecond before the cooldown ends reports 1 s
C5_CooldownAtLastMs ==
  /\ last.op = "requestEditPermission" /\ last.result = "cooldown"
  /\ last.remaining = 1
  /\ \E r \in RowsOf(last.caller) : now - r.permission_requested_at = CooldownMs - 1

\* a cooldown failure in the first second reports the full 30 s
C5_CooldownAtFirstMs ==
  /\ last.op = "requestEditPermission" /\ last.result = "cooldown"
  /\ last.remaining = 30
  /\ \E r \in RowsOf(last.caller) : now - r.permission_requested_at < 1000

\* C6: a successful respondToEditRequest with approved = true sets the target's
\* can_edit to true and permission_status to 'granted'; with approved = false
\* it sets permission_status to 'denied' and leaves can_edit as it was; in both
\* cases the target was in status 'requested' and no other record or field
\* changes.
C6_RespondEffect ==
  [][(last'.op = "respondToEditRequest" /\ last'.result = "ok")
       => LET t == last'.target IN
          /\ IsSingle(RowsOf(t))
          /\ RowOf(t).permission_status = "requested"
          /\ note_users' = (note_users \ {RowOf(t)}) \cup
               {IF last'.flag
                  THEN [RowOf(t) EXCEPT !.can_edit = TRUE,
                                        !.permission_status = "granted"]
                  ELSE [RowOf(t) EXCEPT !.permission_status = "denied"]}]_vars

\* an approved request: the guest now holds can_edit with status granted
C6_Approved ==
  /\ last.op = "respondToEditRequest" /\ last.result = "ok" /\ last.flag
  /\ \E r \in RowsOf(last.target) :
       r.role = "guest" /\ r.can_edit /\ r.permission_status = "granted"

\* a denied request: the guest is in status denied
C6_Denied ==
  /\ last.op = "respondToEditRequest" /\ last.result = "ok" /\ ~last.flag
  /\ \E r \in RowsOf(last.target) :
       r.role = "guest" /\ ~r.can_edit /\ r.permission_status = "denied"

\* C7: respondToEditRequest by the host on an existing target whose
\* permission_status is not 'requested' (none, granted or denied) fails with
\* the invalid-state error and changes no participant record.
C7_RespondNeedsRequested ==
  [][\A h, t \in Users :
       (/\ last'.op = "respondToEditRequest"
        /\ last'.caller = h /\ last'.target = t
        /\ IsStoredHost(h) /\ IsSingle(RowsOf(t))
        /\ RowOf(t).permission_status # "requested")
       => (last'.result = "invalid_state" /\ note_users' = note_users)]_vars

\* a response to a guest that had not requested, or was already answered, was
\* rejected
C7_Rejected ==
  /\ last.op = "respondToEditRequest" /\ last.result = "invalid_state"
  /\ IsStoredHost(last.caller)
  /\ \E r \in RowsOf(last.target) :
       r.role = "guest" /\ r.permission_status \in {"none", "denied", "granted"}

HostOnlyMutations ==
  {"respondToEditRequest", "updateUserEditPermission", "requestLock", "releaseLock"}

\* C8: a host-only mutation (respondToEditRequest, updateUserEditPermission,
\* acquiring or releasing the lock through setNoteLock) changes stored state
\* only if its caller is recorded in the store as the host at call time.
C8_HostOnlyNeedsStoredHost ==
  [][(/\ last'.op \in HostOnlyMutations
      /\ (notes' # notes \/ note_users' # note_users))
       => IsStoredHost(last'.caller)]_vars

\* C9: a successful updateUserEditPermission leaves the target with
\* can_edit = enabled and permission_status = 'granted' when enabled and 'none'
\* when not; called by the host on a host target it fails and changes nothing.
C9_ToggleSetsStatus ==
  [][last'.op = "updateUserEditPermission"
       => /\ last'.result = "ok"
             => \A r \in {x \in note_users' : x.user_id = last'.target} :
                  /\ r.can_edit = last'.flag
                  /\ r.permission_status = IF last'.flag THEN "granted" ELSE "none"
          /\ (\E r \in RowsOf(last'.target) : r.role = "host")
             => (last'.result # "ok" /\ note_users' = note_users)]_vars

\* C10 as stated: cleanupExpiredRequests resets every requested or denied
\* record whose request is at least 24 hours old (exactly 24 hours included)
\* to status 'none' with a null timestamp and leaves every other record and
\* every can_edit unchanged.
C10_CleanupAtLeast24h ==
  [][last'.op = "cleanupExpiredRequests"
       => note_users' =
            {IF /\ r.permission_status \in {"requested", "denied"}
                /\ r.permission_requested_at # NULL
                /\ now - r.permission_requested_at >= 24 * 60 * 60 * 1000
               THEN [r EXCEPT !.permission_status = "none",
                              !.permission_requested_at = NULL]
               ELSE r : r \in note_users}]_vars

\* C10: cleanupExpiredRequests resets every requested or denied record whose
\* request is more than 24 hours old to status 'none' with a null timestamp;
\* a record exactly 24 hours old or younger, every record in status granted or
\* none, and every can_edit are left unchanged.
C10_CleanupOlderThan24h ==
  [][last'.op = "cleanupExpiredRequests"
       => note_users' =
            {IF /\ r.permission_status \in {"requested", "denied"}
                /\ r.permission_requested_at # NULL
                /\ now - r.permission_requested_at > 24 * 60 * 60 * 1000
               THEN [r EXCEPT !.permission_status = "none",
                              !.permission_requested_at = NULL]
               ELSE r : r \in note_users}]_vars

\* a cleanup that reset a request one millisecond past 24 hours
C10_ResetPast24h ==
  /\ last.op = "cleanupExpiredRequests" /\ last.flag
  /\ now = ExpiryMs + 1
  /\ \E r \in GuestRows :
       r.permission_status = "none" /\ r.permission_requested_at = NULL

\* a cleanup that met a request exactly 24 hours old and kept it
C10_KeptAt24h ==
  /\ last.op = "cleanupExpiredRequests" /\ ~last.flag
  /\ \E r \in GuestRows :
       /\ r.permission_status \in {"requested", "denied"}
       /\ now - r.permission_requested_at = ExpiryMs

\* the guest record g with no edit right, the given status and request time
GuestAt(g, status, requestedAt) ==
  /\ IsSingle(RowsOf(g))
  /\ RowOf(g).role = "guest" /\ ~RowOf(g).can_edit
  /\ RowOf(g).permission_status = status
  /\ RowOf(g).permission_requested_at = requestedAt

\* the records after g's record took the given status and request time
WithGuest(g, status, requestedAt) ==
  (note_users \ {RowOf(g)}) \cup
    {[RowOf(g) EXCEPT !.permission_status = status,
                      !.permission_requested_at = requestedAt]}

\* C11: guest G requests at t = 0 and is 'requested'; a second request at
\* t = 10 s fails with a cooldown of 20 s and changes nothing; the host denies
\* at t = 15 s and G is 'denied'; G's request at t = 46 s succeeds and G is
\* 'requested' again with the timestamp t = 46 s.
C11_RequestDenyRequestTrace ==
  [][\A g \in Users :
       /\ (/\ last'.op = "requestEditPermission" /\ last'.caller = g
           /\ now = 0 /\ GuestAt(g, "none", NULL))
          => (last'.result = "ok" /\ note_users' = WithGuest(g, "requested", 0))
       /\ (/\ last'.op = "requestEditPermission" /\ last'.caller = g
           /\ now = 10 * 1000 /\ GuestAt(g, "requested", 0))
          => /\ last'.result = "cooldown" /\ last'.remaining = 20
             /\ note_users' = note_users
       /\ (/\ last'.op = "respondToEditRequest" /\ last'.target = g
           /\ ~last'.flag /\ IsStoredHost(last'.caller)
           /\ now = 15 * 1000 /\ GuestAt(g, "requested", 0))
          => (last'.result = "ok" /\ note_users' = WithGuest(g, "denied", 0))
       /\ (/\ last'.op = "requestEditPermission" /\ last'.caller = g
           /\ now = 46 * 1000 /\ GuestAt(g, "denied", 0))
          => /\ last'.result = "ok"
             /\ note_users' = WithGuest(g, "requested", 46 * 1000)]_vars

\* the last step of the scenario: a request at 46 s that followed a denial
C11_RequestedAgainAt46 ==
  /\ last.op = "requestEditPermission" /\ last.result = "ok" /\ last.flag
  /\ now = 46 * 1000
  /\ GuestAt(last.caller, "requested", 46 * 1000)

\* the second step of the scenario: the request at 10 s met the cooldown
C11_CooldownAt10 ==
  /\ last.op = "requestEditPermission" /\ last.result = "cooldown"
  /\ last.remaining = 20 /\ now = 10 * 1000
  /\ GuestAt(last.caller, "requested", 0)

\* the stored lock holder, NULL when the note is not locked
StoredHolder == IF \E n \in notes : n.is_locked
                THEN (CHOOSE n \in notes : TRUE).locked_by ELSE NULL

\* C12: when the stored lock holder is participant A, a requestLock by another
\* participant B fails and leaves the note row unchanged; the stored holder is
\* never replaced by another holder without a release in between.
C12_LockMutualExclusion ==
  [][/\ \A b \in Users :
          (/\ last'.op = "requestLock" /\ last'.caller = b
           /\ StoredHolder \notin {NULL, b})
          => (last'.result # "ok" /\ notes' = notes)
     /\ StoredHolder # NULL => StoredHolder' \in {StoredHolder, NULL}]_vars

\* C13: a releaseLock by a participant that is not the stored lock holder fails
\* and leaves is_locked and locked_by unchanged, whatever that participant's
\* local view of the lock is.
C13_ReleaseByHolderOnly ==
  [][\A b \in Users :
       (/\ last'.op = "releaseLock" /\ last'.caller = b
        /\ StoredHolder \notin {NULL, b})
       => (last'.result # "ok" /\ StoredHolder' = StoredHolder)]_vars

\* C14: a requestLock by the participant that is the stored lock holder
\* succeeds and changes no stored field of the note (is_locked, locked_by,
\* last_modified), whatever that participant's local view of the lock is.
C14_ReacquireChangesNothing ==
  [][\A a \in Users :
       (/\ last'.op = "requestLock" /\ last'.caller = a
        /\ StoredHolder = a)
       => (last'.result \in {"ok", "already_held"} /\ notes' = notes)]_vars

\* structural equality of two documents: the same nodes with the same types
\* and texts and the same set of keys, in whatever order the keys come
StructEqual(a, b) ==
  /\ a.isNull = b.isNull
  /\ Len(a.nodes) = Len(b.nodes)
  /\ \A i \in DOMAIN a.nodes :
       /\ a.nodes[i].type = b.nodes[i].type
       /\ a.nodes[i].text = b.nodes[i].text
       /\ {a.nodes[i].keys[j] : j \in DOMAIN a.nodes[i].keys}
            = {b.nodes[i].keys[j] : j \in DOMAIN b.nodes[i].keys}

\* a step in which the store applies agent u's content write
StoreApplies(u) == last'.op = "updateNoteContentJson" /\ last'.caller = u

\* C15: after updateNoteContentJson(id, c) the stored content_json is
\* structurally equal to c, and last_modified is strictly greater than before
\* the write.
C15_RoundTripAndNewerStamp ==
  [][\A u \in Users : StoreApplies(u) =>
       \A n \in notes, m \in notes' :
         /\ StructEqual(m.content_json, hook[u].sending)
         /\ m.last_modified > n.last_modified]_vars

\* C16: the stored last_modified never decreases, whatever content, title and
\* lock writes are made.
C16_LastModifiedMonotonic ==
  [][\A n \in notes, m \in notes' : m.last_modified >= n.last_modified]_vars

\* the plain text of the documents of the model: 'a' and '\nc'
PlainTextOf(doc) ==
  IF StructEqual(doc, DocA) THEN <<"a">>
  ELSE IF StructEqual(doc, DocB) THEN <<"\n", "c">>
  ELSE <<>>

\* C17: when the store applies a content write, the stored document is that
\* write's document in full and the plain-text backup is the text of the same
\* document, whatever write was applied before; so after two writes applied
\* one after the other both fields come from the later one.
C17_LastWriteWins ==
  [][\A u \in Users : StoreApplies(u) =>
       \A m \in notes' :
         /\ StructEqual(m.content_json, hook[u].sending)
         /\ m.content = PlainTextOf(hook[u].sending)]_vars

\* two agents' writes with different documents were applied one after the
\* other, and the store holds the later one
C17_SecondWriteStored ==
  /\ last.op = "updateNoteContentJson"
  /\ \E v \in Users \ {last.caller} :
       /\ hook[v].request = "stored" /\ hook[last.caller].request = "stored"
       /\ ~StructEqual(hook[v].sending, hook[last.caller].sending)
       /\ \A n \in notes :
            /\ StructEqual(n.content_json, hook[last.caller].sending)
            /\ n.content = PlainTextOf(hook[last.caller].sending)

\* C18: every local edit is eventually persisted: once an agent has made a
\* local edit, updateNoteContentJson is eventually called with its latest
\* local document (the agents make finitely many edits and are not torn down).
C18_EditEventuallySaved ==
  \A u \in Users : hook[u].unsaved ~> ~hook[u].unsaved

\* a step in which agent u's handler takes a notification of a write that
\* agent by made
Handles(u, by) ==
  /\ last'.op = "handleUpdate" /\ last'.caller = u /\ last'.target = by
  /\ inbox[u] # <<>>

\* C19: the echo of an agent's own write never replaces a newer local edit of
\* that agent: when the agent's document is a local edit and the notification
\* of one of its own writes carries another document, the handler leaves the
\* local document as it is.
C19_OwnEchoKeepsLocalEdit ==
  [][\A u \in Users :
       (/\ Handles(u, u)
        /\ hook[u].fromEdit
        /\ ~StructEqual(Head(inbox[u]).content_json, hook[u].contentJson))
       => hook'[u].contentJson = hook[u].contentJson]_vars

\* C20: the handler replaces the local document if and only if
\* no local write is marked in flight and the inbound document is not
\* structurally equal to the local one.
C20_ReplacesIff ==
  [][\A u \in Users : (\E by \in Users : Handles(u, by)) =>
       (last'.flag <=>
          /\ ~hook[u].isLocalChange
          /\ ~StructEqual(Head(inbox[u]).content_json, hook[u].contentJson))]_vars

\* C21: after a local edit the agent's in-flight mark is eventually cleared,
\* also for an agent whose channel never delivers a notification and that
\* polls instead.
C21_MarkEventuallyCleared ==
  \A u \in Users : hook[u].isLocalChange ~> ~hook[u].isLocalChange

\* a step in which agent u's content channel reports a failure
Fails(u) ==
  /\ last'.op \in {"CHANNEL_ERROR", "TIMED_OUT"}
  /\ last'.caller = u

\* C22: when the content channel of an agent reports its third failure in a
\* row, with no SUBSCRIBED in between, the agent's polling timer is set right
\* after that report.
C22_PollingAfterThirdFailure ==
  [][\A u \in Users :
       (Fails(u) /\ hook'[u].failures = 3) => hook'[u].polling]_vars

\* C23: while an agent polls, once a content write has reached the store a
\* completed poll leaves the agent's document equal to the stored document
\* the poll read, whatever the agent did before, local edits included.
C23_PollConverges ==
  [][\A u \in Users :
       (/\ last'.op = "fetchNoteContent" /\ last'.caller = u
        /\ ~hook[u].fetched.isNull)
       => StructEqual(hook'[u].contentJson, hook[u].fetched)]_vars

\* C24: SUBSCRIBED cancels the polling timer and resets the failure counter,
\* and in no state is the polling timer set while the agent is connected.
C24_SubscribedStopsPolling ==
  [][\A u \in Users :
       /\ ~(hook'[u].polling /\ hook'[u].isConnected)
       /\ (last'.op = "SUBSCRIBED" /\ last'.caller = u)
          => (~hook'[u].polling /\ hook'[u].reconnectAttempts = 0)]_vars

\* SUBSCRIBED was reported to an agent that was polling after failures
C24_ResubscribedWhilePolling ==
  /\ last.op = "SUBSCRIBED"
  /\ last.flag
  /\ hook[last.caller].isConnected
  /\ ~hook[last.caller].polling

\* C25: after an agent is torn down it holds no channel and no timer, and
\* never gets one again; and if it was the stored lock holder when it was
\* torn down, the release of the lock is under way.
C25_TeardownIsFinal ==
  [][\A u \in Users :
       /\ lockLocal'[u].tornDown =>
            /\ ~hook'[u].mounted /\ ~hook'[u].timer /\ ~hook'[u].polling
            /\ ~lockLocal'[u].channel /\ ~lockLocal'[u].reconnectTimer
       /\ (last'.op = "unmount" /\ last'.caller = u /\ StoredHolder = u)
            => lockLocal'[u].unlock # "none"]_vars

\* C28: a setNoteLock(noteId, false, null) that is not an explicit
\* releaseLock is written only for the agent's own teardown, and never while
\* the stored holder is another participant.
C28_UnlockOnlyOnReleaseOrTeardown ==
  [][last'.op = "effectUnlock" =>
       /\ last'.result = "unmount"
       /\ StoredHolder \in {NULL, last'.caller}]_vars

\* C26: when a joinNote call has completed, the store holds exactly one
\* record for its note and user, also when another joinNote call for the same
\* pair ran at the same time; and a rejoin changes only the role (of the
\* modelled fields) of the existing record.
C26_JoinIsUpsert ==
  [][\A u \in Users :
       (last'.op = "joinNote" /\ last'.caller = u /\ last'.result = "ok") =>
         /\ Cardinality(RowsOf(u)') = 1
         /\ ~last'.flag =>
              \A r \in RowsOf(u) : \E q \in RowsOf(u)' : q = [r EXCEPT !.role = q.role]]_vars

C30_LateRespondChangesNothing ==
  [][\A t \in Users :
       (/\ last'.op = "respondToEditRequestWrite" /\ last'.target = t
        /\ \A r \in RowsOf(t) : r.permission_status # "requested")
       => note_users' = note_users]_vars

\* C29: a guest's content write is applied by the store only while the
\* store records can_edit = true for that guest; an edit that waited in the
\* debounce window when the right was revoked is not persisted.
C29_GuestWritesNeedPermission ==
  [][\A u \in Users :
       (StoreApplies(u) /\ userRole[u] = "guest")
       => \E r \in RowsOf(u) : r.can_edit]_vars
====
